---------------------------- MODULE Spec2Model ----------------------------
(***************************************************************************)
(* A model of src/calculate_hours_of_daylight.js: the day-length           *)
(* calculator calculateHoursOfDaylight and its four helpers.               *)
(*                                                                         *)
(* JavaScript numbers are IEEE-754 doubles.  They are modelled here by a   *)
(* decimal floating-point number with a six-digit mantissa and an          *)
(* unbounded exponent, together with NaN and +/-Infinity:                  *)
(*     [k |-> "fin", m |-> mantissa, e |-> exponent]   value m * 10^e,     *)
(*                      m = 0, or 10^5 <= |m| < 10^6 (normalised)          *)
(*     [k |-> "inf", m |-> +1 or -1, e |-> 0]                              *)
(*     [k |-> "nan", m |-> 0, e |-> 0]                                     *)
(* Every arithmetic operator rounds its result to six digits, as every     *)
(* double operation rounds to 53 bits.  The sign of zero and the overflow  *)
(* of the exponent are not modelled.                                       *)
(***************************************************************************)
EXTENDS Integers, Sequences, FiniteSets

(***************************************************************************)
(* Numbers                                                                 *)
(***************************************************************************)
MantDigits == 2 * 3
MantMin == 10 ^ (MantDigits - 1)
MantLim == 10 ^ MantDigits

Abs(n) == IF n < 0 THEN 0 - n ELSE n
Sgn(n) == IF n < 0 THEN 0 - 1 ELSE IF n = 0 THEN 0 ELSE 1

Fin(m, e) == [k |-> "fin", m |-> m, e |-> e]
NaN == [k |-> "nan", m |-> 0, e |-> 0]
Inf(s) == [k |-> "inf", m |-> s, e |-> 0]
Zero == Fin(0, 0)

IsNaN(x) == x.k = "nan"
IsFin(x) == x.k = "fin"
IsInf(x) == x.k = "inf"
IsZero(x) == x.k = "fin" /\ x.m = 0

\* The number of decimal digits of n, 0 < n < 2^31.
Digits(n) ==
    IF n < 100000
    THEN IF n < 10 THEN 1 ELSE IF n < 100 THEN 2 ELSE IF n < 1000 THEN 3
         ELSE IF n < 10000 THEN 4 ELSE 5
    ELSE IF n < 1000000 THEN 6 ELSE IF n < 10000000 THEN 7
         ELSE IF n < 100000000 THEN 8 ELSE IF n < 1000000000 THEN 9 ELSE 10

\* a / b rounded to the nearest integer (half away from zero), b > 0.
RoundDiv(a, b) == Sgn(a) * ((Abs(a) + b \div 2) \div b)

\* The rounded mantissa q with sign s: 10^6 is carried into the exponent.
Carry(s, q, e) == IF q = MantLim THEN Fin(s * MantMin, e + 1) ELSE Fin(s * q, e)

\* The number m * 10^e, m of d digits, rounded to six digits.
Round(m, e, d) ==
    IF d <= MantDigits
    THEN Fin(m * 10 ^ (MantDigits - d), e - (MantDigits - d))
    ELSE Carry(Sgn(m),
               (Abs(m) + (10 ^ (d - MantDigits)) \div 2) \div 10 ^ (d - MantDigits),
               e + (d - MantDigits))

\* The number m * 10^e rounded to six digits.
Norm(m, e) == IF m = 0 THEN Zero ELSE Round(m, e, Digits(Abs(m)))

\* The number s * p * 10^e rounded to six digits, for p of seven to nine
\* digits: what Norm(s * p, e) is, for the products and quotients of mantissas.
Shorten(s, p, e) ==
    IF p >= 100000000 THEN Carry(s, (p + 500) \div 1000, e + 3)
    ELSE IF p >= 10000000 THEN Carry(s, (p + 50) \div 100, e + 2)
    ELSE Carry(s, (p + 5) \div 10, e + 1)

\* A numeric literal of the source: Num(167, -4) is 0.0167.
Num(m, e) == Norm(m, e)
Int2Num(n) == Norm(n, 0)

Neg(x) == IF x.k = "nan" THEN NaN ELSE [x EXCEPT !.m = 0 - x.m]

\* hi + lo for finite nonzero numbers whose exponents differ by d = hi.e - lo.e
\* >= 0: lo is aligned to hi with three more digits, k of them hi's.
Align(hi, lo, d, k) ==
    IF d >= 11 THEN hi
    ELSE Norm(hi.m * 10 ^ k + RoundDiv(lo.m, 10 ^ (d - k)), hi.e - k)

\* x + y
Add(x, y) ==
    IF x.k = "nan" \/ y.k = "nan" THEN NaN
    ELSE IF x.k = "inf"
         THEN IF y.k = "inf" /\ y.m # x.m THEN NaN ELSE x
    ELSE IF y.k = "inf" THEN y
    ELSE IF x.m = 0 THEN y
    ELSE IF y.m = 0 THEN x
    ELSE Align(IF x.e >= y.e THEN x ELSE y, IF x.e >= y.e THEN y ELSE x,
               Abs(x.e - y.e), IF Abs(x.e - y.e) <= 3 THEN Abs(x.e - y.e) ELSE 3)

\* x - y
Sub(x, y) == Add(x, Neg(y))

\* x * y
Mul(x, y) ==
    IF x.k = "nan" \/ y.k = "nan" THEN NaN
    ELSE IF x.k = "inf" \/ y.k = "inf"
         THEN IF x.m = 0 \/ y.m = 0 THEN NaN ELSE Inf(Sgn(x.m) * Sgn(y.m))
    ELSE IF x.m = 0 \/ y.m = 0 THEN Zero
    ELSE LET a == Abs(x.m)
             b == Abs(y.m)
         IN  Shorten(Sgn(x.m) * Sgn(y.m),
                     a * (b \div 1000) + (a * (b % 1000)) \div 1000, x.e + y.e + 3)

\* x / y
Div(x, y) ==
    IF x.k = "nan" \/ y.k = "nan" THEN NaN
    ELSE IF x.k = "inf"
         THEN IF y.k = "inf" THEN NaN
              ELSE Inf(x.m * (IF y.m < 0 THEN 0 - 1 ELSE 1))
    ELSE IF y.k = "inf" THEN Zero
    ELSE IF y.m = 0 THEN (IF x.m = 0 THEN NaN ELSE Inf(Sgn(x.m)))
    ELSE IF x.m = 0 THEN Zero
    ELSE LET a  == Abs(x.m)
             b  == Abs(y.m)
             q1 == (a * 1000) \div b
             r1 == (a * 1000) % b
             q2 == (r1 * 1000) \div b
             r2 == (r1 * 1000) % b
             q3 == (r2 * 10) \div b
         IN  Shorten(Sgn(x.m) * Sgn(y.m), (q1 * 1000 + q2) * 10 + q3, x.e - y.e - 7)

\* x ** 2 and x ** 3
Pow2(x) == Mul(x, x)
Pow3(x) == Mul(Mul(x, x), x)

\* The sign of x - y for numbers that are not NaN: -1, 0 or 1.
Cmp(x, y) == Sgn(Sub(x, y).m)
Lt(x, y) == x.k # "nan" /\ y.k # "nan" /\ x # y /\ Cmp(x, y) < 0
Le(x, y) == x.k # "nan" /\ y.k # "nan" /\ (x = y \/ Cmp(x, y) < 0)
AbsNum(x) == IF x.k = "nan" THEN NaN ELSE [x EXCEPT !.m = Abs(x.m)]

(***************************************************************************)
(* The Math library.  Angles are reduced exactly, in units of 10^-7        *)
(* radian, before a polynomial is evaluated in floating point; so          *)
(* MathSin and MathCos are accurate to the last digit for every argument,  *)
(* as the library's are, and MathCos of the number nearest to pi/2 is a    *)
(* tiny nonzero number, as Math.cos(Math.PI/2) is 6.1e-17.                 *)
(***************************************************************************)
MathPI == Fin(314159, 0 - 5)

\* pi/4, pi/2, pi and 2*pi in units of 10^-7 radian.
QuarterPiU == 7853982
HalfPiU == 15707963
PiU == 31415927
TwoPiU == 62831853

One == Fin(100000, 0 - 5)
Two == Fin(200000, 0 - 5)
Half == Fin(500000, 0 - 6)
HalfPI == Fin(157080, 0 - 5)

\* sin y for |y| <= pi/4, z = y^2: y - y^3/3! + y^5/5! - y^7/7! + y^9/9!
SinSeries(y, z) ==
    Add(y, Mul(Mul(y, z),
               Add(Fin(0 - 166667, 0 - 6),
                   Mul(z, Add(Fin(833333, 0 - 8),
                              Mul(z, Add(Fin(0 - 198413, 0 - 9),
                                         Mul(z, Fin(275573, 0 - 11)))))))))
SinPoly(y) == SinSeries(y, Mul(y, y))

\* cos y for |y| <= pi/4, z = y^2: 1 - y^2/2! + y^4/4! - ... - y^10/10!
CosSeries(z) ==
    Add(One,
        Mul(z, Add(Fin(0 - 500000, 0 - 6),
                   Mul(z, Add(Fin(416667, 0 - 7),
                              Mul(z, Add(Fin(0 - 138889, 0 - 8),
                                         Mul(z, Add(Fin(248016, 0 - 10),
                                                    Mul(z, Fin(0 - 275573, 0 - 12)))))))))))
CosPoly(y) == CosSeries(Mul(y, y))

\* The finite number x >= pi/4 in units of 10^-7 radian (exact: x.e >= -6).
ToUnits(x) == x.m * 10 ^ (x.e + 7)

\* |x| < pi/4, for a finite x.
SmallAngle(x) == x.e < 0 - 6 \/ (x.e = 0 - 6 /\ Abs(x.m) * 10 < QuarterPiU)

\* The angle u (units of 10^-7 radian) brought into (-pi, pi].
Wrap(u) == IF u % TwoPiU > PiU THEN (u % TwoPiU) - TwoPiU ELSE u % TwoPiU

\* sin and cos of an angle a in [0, pi/2], in units of 10^-7 radian.
SinQ(a) == IF a <= QuarterPiU THEN SinPoly(Norm(a, 0 - 7))
           ELSE CosPoly(Norm(HalfPiU - a, 0 - 7))
CosQ(a) == IF a <= QuarterPiU THEN CosPoly(Norm(a, 0 - 7))
           ELSE SinPoly(Norm(HalfPiU - a, 0 - 7))

\* The angle a in [0, pi] reflected into [0, pi/2], and x with the sign of s.
Fold(a) == IF a > HalfPiU THEN PiU - a ELSE a
Signed(s, x) == IF s < 0 THEN Neg(x) ELSE x

\* sin of an angle t in (-pi, pi] and cos of an angle a in [0, pi].
SinU(t) == Signed(t, SinQ(Fold(Abs(t))))
CosU(a) == Signed(HalfPiU - a, CosQ(Fold(a)))

\* Math.sin
MathSin(x) ==
    IF x.k # "fin" THEN NaN
    ELSE IF SmallAngle(x) THEN SinPoly(x)
    ELSE SinU(Wrap(ToUnits(x)))

\* Math.cos
MathCos(x) ==
    IF x.k # "fin" THEN NaN
    ELSE IF SmallAngle(x) THEN CosPoly(x)
    ELSE CosU(Abs(Wrap(ToUnits(x))))

\* The largest s with s * s <= n, searched between lo and hi.
RECURSIVE ISqrt(_, _, _)
ISqrt(n, lo, hi) ==
    IF lo >= hi THEN lo
    ELSE IF ((lo + hi + 1) \div 2) * ((lo + hi + 1) \div 2) <= n
         THEN ISqrt(n, (lo + hi + 1) \div 2, hi)
         ELSE ISqrt(n, lo, (lo + hi + 1) \div 2 - 1)

\* One step of Newton's iteration for the square root of x, from s0.
Newton(x, s0) == Div(Add(s0, Div(x, s0)), Two)

\* Math.sqrt: an integer square root of the mantissa, then one Newton step.
MathSqrt(x) ==
    IF x.k = "nan" THEN NaN
    ELSE IF x.k = "inf" THEN (IF x.m > 0 THEN x ELSE NaN)
    ELSE IF x.m < 0 THEN NaN
    ELSE IF x.m = 0 THEN Zero
    ELSE LET k == IF (x.e - 3) % 2 = 0 THEN 3 ELSE 2
         IN  Newton(x, Norm(ISqrt(x.m * 10 ^ k, 1, 40000), (x.e - k) \div 2))

\* One step of the series of asin: 1 + z * c * p, z = y^2.
AsinStep(z, c, p) == Add(One, Mul(Mul(z, c), p))

\* asin y for |y| <= 1/2, z = y^2, by its power series: the coefficients are
\* 1/6, 9/20, 25/42, 49/72, 81/110, 121/156, 169/210, 225/272 and 289/342.
AsinSeries(y, z) ==
    Mul(y, AsinStep(z, Fin(166667, 0 - 6),
           AsinStep(z, Fin(450000, 0 - 6),
           AsinStep(z, Fin(595238, 0 - 6),
           AsinStep(z, Fin(680556, 0 - 6),
           AsinStep(z, Fin(736364, 0 - 6),
           AsinStep(z, Fin(775641, 0 - 6),
           AsinStep(z, Fin(804762, 0 - 6),
           AsinStep(z, Fin(827206, 0 - 6),
           AsinStep(z, Fin(845029, 0 - 6), One))))))))))
AsinPoly(y) == AsinSeries(y, Mul(y, y))

\* acos x from t = asin(sqrt((1 - |x|)/2)), for |x| > 1/2, and asin x from
\* t = asin x, for |x| <= 1/2.
AcosOf(x, far, t) ==
    IF ~far THEN Sub(HalfPI, t)
    ELSE IF x.m > 0 THEN Mul(Two, t)
    ELSE Sub(MathPI, Mul(Two, t))

\* Math.acos for a finite x in [-1, 1].
MathAcosIn(x) ==
    AcosOf(x, Lt(Half, AbsNum(x)),
           AsinPoly(IF Lt(Half, AbsNum(x))
                    THEN MathSqrt(Div(Sub(One, AbsNum(x)), Two))
                    ELSE x))

\* A variant of MathAcos: an argument outside [-1, 1] is clamped to the interval.
MathAcos_Saturating(x) ==
    IF x.k = "nan" THEN NaN
    ELSE IF Lt(One, x) THEN Zero
    ELSE IF Lt(x, Neg(One)) THEN MathPI
    ELSE MathAcosIn(x)

\* Math.acos: NaN outside [-1, 1].
MathAcos(x) ==
    IF x.k # "fin" THEN NaN
    ELSE IF Lt(One, AbsNum(x)) THEN NaN
    ELSE MathAcosIn(x)

\* Math.asin: NaN outside [-1, 1].
MathAsin(x) ==
    IF x.k # "fin" THEN NaN
    ELSE IF Lt(One, AbsNum(x)) THEN NaN
    ELSE IF Lt(Half, AbsNum(x)) THEN Signed(x.m, Sub(HalfPI, MathAcosIn(AbsNum(x))))
    ELSE AsinPoly(x)

(***************************************************************************)
(* The program.  A call's configuration record cfg is a function from the  *)
(* names of the fields the caller gave to their values; a field that is    *)
(* not given is undefined and takes the default of the destructuring       *)
(* pattern.  A debug argument is "true", "false" or "omitted".  An         *)
(* operator that models a function with console output returns a record    *)
(* with the value returned (ret) and the lines printed (log, one label     *)
(* per console.log call; the number a line shows is left out).             *)
(***************************************************************************)
Field(cfg, name, default) == IF name \in DOMAIN cfg THEN cfg[name] ELSE default

\* The value of a debug parameter whose default is dflt.
DebugOn(debug, dflt) == IF debug = "omitted" THEN dflt ELSE debug = "true"

Line(on, label) == IF on THEN <<label>> ELSE <<>>

\* The defaults of calculateHoursOfDaylight's destructuring pattern.
DefaultLastSolsticeDay == Num(349, 0)
DefaultSecondsPerDay == Mul(Mul(Num(24, 0), Num(60, 0)), Num(60, 0))
DefaultDaysPerYear == Num(365259, 0 - 3)
DefaultEccentricity == Num(167, 0 - 4)
DefaultSemiMajorAxis == Num(1496, 8)
DefaultMassOfSun == Num(1989, 27)
DefaultAxialTilt == Num(0 - 2344, 0 - 2)
DefaultSolarRadius == Num(69634, 4)
DefaultRefractionAtSunset == Num(3, 0 - 1)
\* The default of calculateAngularVelocity's last parameter.
DefaultGravitationalConstant == Num(667408, 0 - 16)

\* The equation of the centre to the third order, for mean anomaly M.
TrueAnomalyOf(M, e) ==
    LET t1 == Mul(Sub(Mul(Two, e), Mul(Num(25, 0 - 2), Pow3(e))), MathSin(M))
        t2 == Mul(Mul(Div(Num(5, 0), Num(4, 0)), Pow2(e)), MathSin(Mul(Two, M)))
        t3 == Mul(Mul(Div(Num(13, 0), Num(12, 0)), Pow3(e)), MathSin(Mul(Num(3, 0), M)))
    IN  Add(Add(Add(M, t1), t2), t3)

\* A variant of calculateTrueAnomaly: the year has 365 days whatever daysPerYear is.
calculateTrueAnomaly_FixedYear(orbitDay, daysPerYear, eccentricity) ==
    TrueAnomalyOf(Div(Mul(Mul(Two, MathPI), orbitDay), Num(365, 0)), eccentricity)

\* A variant of calculateTrueAnomaly: the mean anomaly is pi * orbitDay / daysPerYear.
calculateTrueAnomaly_HalfTurn(orbitDay, daysPerYear, eccentricity) ==
    TrueAnomalyOf(Div(Mul(MathPI, orbitDay), daysPerYear), eccentricity)

calculateTrueAnomaly(orbitDay, daysPerYear, eccentricity) ==
    LET M == Div(Mul(Mul(Two, MathPI), orbitDay), daysPerYear)
        e == eccentricity
        t1 == Mul(Sub(Mul(Two, e), Mul(Num(25, 0 - 2), Pow3(e))), MathSin(M))
        t2 == Mul(Mul(Div(Num(5, 0), Num(4, 0)), Pow2(e)), MathSin(Mul(Two, M)))
        t3 == Mul(Mul(Div(Num(13, 0), Num(12, 0)), Pow3(e)), MathSin(Mul(Num(3, 0), M)))
    IN  Add(Add(Add(M, t1), t2), t3)

calculateAngularVelocity(trueAnomaly, semiMajorAxis, eccentricity, massOfSun, gravitationalConstant) ==
    LET v == trueAnomaly
        a == semiMajorAxis
        e == eccentricity
        G == gravitationalConstant
        M == massOfSun
        h == MathSqrt(Mul(Mul(Mul(G, M), a), Sub(One, Pow2(e))))
        r == Div(Mul(a, Sub(One, Pow2(e))), Add(One, Mul(e, MathCos(v))))
    IN  Div(h, Pow2(r))

\* A variant of calculateSolarMeanAngularVelocity: half a turn a day.
calculateSolarMeanAngularVelocity_HalfTurn(secondsPerDay) ==
    Div(MathPI, secondsPerDay)

calculateSolarMeanAngularVelocity(secondsPerDay) ==
    Div(Mul(Two, MathPI), secondsPerDay)

\* calculateAngularSolarPathLength changed in one place: with variant
\* "point source" the disc centre is on the horizon (the formula of the comment
\* at line 87), with "asin" the hour angle is taken with Math.asin.
PathLengthVariant(trueAnomaly, latitude, opts, debug, variant) ==
    LET on == DebugOn(debug, TRUE)
        theta == Div(Mul(opts.axialTilt, MathPI), Num(180, 0))
        phi == Div(Mul(latitude, MathPI), Num(180, 0))
        solsticeAnomaly ==
            calculateTrueAnomaly(opts.lastSolsticeDay, opts.daysPerYear, opts.eccentricity)
        solarDiscCenter ==
            IF variant = "point source" THEN Zero
            ELSE Sub(Mul(Num(0 - 2, 0), MathAsin(Div(opts.solarRadius, opts.semiMajorAxis))),
                     Div(Mul(opts.refractionAtSunset, MathPI), Num(180, 0)))
        Returned(solarDeclination, pm_cos_omega_0, cosPhi) ==
            [ret |-> Mul(Two, IF variant = "asin" THEN MathAsin(pm_cos_omega_0)
                              ELSE MathAcos(pm_cos_omega_0)),
             log |-> Line(on, "Solstice anomaly") \o Line(on, "Solar declination")
                     \o Line(on, "Solar disc center"),
             pm_cos_omega_0 |-> pm_cos_omega_0,
             solarDeclination |-> solarDeclination,
             cosPhi |-> cosPhi]
        HourAngle(solarDeclination, cosPhi) ==
            Returned(solarDeclination,
                     Div(Sub(MathSin(solarDiscCenter),
                             Mul(MathSin(phi), MathSin(solarDeclination))),
                         Mul(cosPhi, MathCos(solarDeclination))),
                     cosPhi)
    IN  HourAngle(Mul(theta, MathCos(Sub(trueAnomaly, solsticeAnomaly))), MathCos(phi))

calculateAngularSolarPathLength_PointSource(trueAnomaly, latitude, opts, debug) ==
    PathLengthVariant(trueAnomaly, latitude, opts, debug, "point source")

calculateAngularSolarPathLength_Asin(trueAnomaly, latitude, opts, debug) ==
    PathLengthVariant(trueAnomaly, latitude, opts, debug, "asin")

\* opts is the record of the third parameter; its fields have no defaults.
\* HourAngle is the function from line 94 on, with the values of
\* solarDeclination and Math.cos(phi) as parameters, and Returned the return
\* statement; the record returned carries, beside the value, the locals
\* the properties speak of.
calculateAngularSolarPathLength(trueAnomaly, latitude, opts, debug) ==
    LET on == DebugOn(debug, TRUE)
        theta == Div(Mul(opts.axialTilt, MathPI), Num(180, 0))
        phi == Div(Mul(latitude, MathPI), Num(180, 0))
        solsticeAnomaly ==
            calculateTrueAnomaly(opts.lastSolsticeDay, opts.daysPerYear, opts.eccentricity)
        solarDiscCenter ==
            Sub(Mul(Num(0 - 2, 0), MathAsin(Div(opts.solarRadius, opts.semiMajorAxis))),
                Div(Mul(opts.refractionAtSunset, MathPI), Num(180, 0)))
        Returned(solarDeclination, pm_cos_omega_0, cosPhi) ==
            [ret |-> Mul(Two, MathAcos(pm_cos_omega_0)),
             log |-> Line(on, "Solstice anomaly") \o Line(on, "Solar declination")
                     \o Line(on, "Solar disc center"),
             pm_cos_omega_0 |-> pm_cos_omega_0,
             solarDeclination |-> solarDeclination,
             cosPhi |-> cosPhi]
        HourAngle(solarDeclination, cosPhi) ==
            Returned(solarDeclination,
                     Div(Sub(MathSin(solarDiscCenter),
                             Mul(MathSin(phi), MathSin(solarDeclination))),
                         Mul(cosPhi, MathCos(solarDeclination))),
                     cosPhi)
    IN  HourAngle(Mul(theta, MathCos(Sub(trueAnomaly, solsticeAnomaly))), MathCos(phi))

\* calculateHoursOfDaylight changed in one place: with variant "reads G" the
\* gravitational constant is taken from the record, with "debug not passed" the
\* call of calculateAngularSolarPathLength leaves its debug argument out, with
\* "uses r" the sun's angular velocity in the sky is the mean solar one less the
\* orbital one.
HoursVariant(cfg, debug, variant) ==
    LET on == DebugOn(debug, FALSE)
        orbitDay == Field(cfg, "orbitDay", NaN)
        latitude == Field(cfg, "latitude", NaN)
        lastSolsticeDay == Field(cfg, "lastSolsticeDay", DefaultLastSolsticeDay)
        secondsPerDay == Field(cfg, "secondsPerDay", DefaultSecondsPerDay)
        daysPerYear == Field(cfg, "daysPerYear", DefaultDaysPerYear)
        eccentricity == Field(cfg, "eccentricity", DefaultEccentricity)
        semiMajorAxis == Field(cfg, "semiMajorAxis", DefaultSemiMajorAxis)
        massOfSun == Field(cfg, "massOfSun", DefaultMassOfSun)
        axialTilt == Field(cfg, "axialTilt", DefaultAxialTilt)
        solarRadius == Field(cfg, "solarRadius", DefaultSolarRadius)
        refractionAtSunset == Field(cfg, "refractionAtSunset", DefaultRefractionAtSunset)
        Returned(v, r, path) ==
            LET angularSolarPathLength == path.ret
                dayLength == Div(angularSolarPathLength,
                                 IF variant = "uses r"
                                 THEN Sub(calculateSolarMeanAngularVelocity(secondsPerDay), r)
                                 ELSE calculateSolarMeanAngularVelocity(secondsPerDay))
            IN  [ret |-> Div(Div(dayLength, Num(60, 0)), Num(60, 0)),
                 log |-> Line(on, "True anomaly") \o Line(on, "Angular velocity")
                         \o path.log \o Line(on, "Angular solar path length")
                         \o Line(on, "Day length length"),
                 trueAnomaly |-> v,
                 angularVelocity |-> r,
                 angularSolarPathLength |-> path.ret,
                 pm_cos_omega_0 |-> path.pm_cos_omega_0,
                 solarDeclination |-> path.solarDeclination,
                 cosPhi |-> path.cosPhi]
        Body(v) ==
            Returned(v,
                calculateAngularVelocity(v, semiMajorAxis, eccentricity, massOfSun,
                    IF variant = "reads G"
                    THEN Field(cfg, "gravitationalConstant", DefaultGravitationalConstant)
                    ELSE DefaultGravitationalConstant),
                calculateAngularSolarPathLength(v, latitude,
                    [daysPerYear |-> daysPerYear, eccentricity |-> eccentricity,
                     axialTilt |-> axialTilt, semiMajorAxis |-> semiMajorAxis,
                     solarRadius |-> solarRadius,
                     refractionAtSunset |-> refractionAtSunset,
                     lastSolsticeDay |-> lastSolsticeDay],
                    IF variant = "debug not passed" THEN "omitted"
                    ELSE IF on THEN "true" ELSE "false"))
    IN  Body(calculateTrueAnomaly(orbitDay, daysPerYear, eccentricity))

calculateHoursOfDaylight_ReadsG(cfg, debug) == HoursVariant(cfg, debug, "reads G")

calculateHoursOfDaylight_DebugNotPassed(cfg, debug) ==
    HoursVariant(cfg, debug, "debug not passed")

calculateHoursOfDaylight_UsesR(cfg, debug) == HoursVariant(cfg, debug, "uses r")

\* Body is the function from line 123 on, with the value of v as its
\* parameter, and Returned its lines 135 to 140, with the values of r and
\* of the path helper's result.
calculateHoursOfDaylight(cfg, debug) ==
    LET on == DebugOn(debug, FALSE)
        orbitDay == Field(cfg, "orbitDay", NaN)
        latitude == Field(cfg, "latitude", NaN)
        lastSolsticeDay == Field(cfg, "lastSolsticeDay", DefaultLastSolsticeDay)
        secondsPerDay == Field(cfg, "secondsPerDay", DefaultSecondsPerDay)
        daysPerYear == Field(cfg, "daysPerYear", DefaultDaysPerYear)
        eccentricity == Field(cfg, "eccentricity", DefaultEccentricity)
        semiMajorAxis == Field(cfg, "semiMajorAxis", DefaultSemiMajorAxis)
        massOfSun == Field(cfg, "massOfSun", DefaultMassOfSun)
        axialTilt == Field(cfg, "axialTilt", DefaultAxialTilt)
        solarRadius == Field(cfg, "solarRadius", DefaultSolarRadius)
        refractionAtSunset == Field(cfg, "refractionAtSunset", DefaultRefractionAtSunset)
        Returned(v, r, path) ==
            LET angularSolarPathLength == path.ret
                dayLength == Div(angularSolarPathLength,
                                 calculateSolarMeanAngularVelocity(secondsPerDay))
            IN  [ret |-> Div(Div(dayLength, Num(60, 0)), Num(60, 0)),
                 log |-> Line(on, "True anomaly") \o Line(on, "Angular velocity")
                         \o path.log \o Line(on, "Angular solar path length")
                         \o Line(on, "Day length length"),
                 trueAnomaly |-> v,
                 angularVelocity |-> r,
                 angularSolarPathLength |-> path.ret,
                 pm_cos_omega_0 |-> path.pm_cos_omega_0,
                 solarDeclination |-> path.solarDeclination,
                 cosPhi |-> path.cosPhi]
        Body(v) ==
            Returned(v,
                calculateAngularVelocity(v, semiMajorAxis, eccentricity, massOfSun,
                                         DefaultGravitationalConstant),
                calculateAngularSolarPathLength(v, latitude,
                    [daysPerYear |-> daysPerYear, eccentricity |-> eccentricity,
                     axialTilt |-> axialTilt, semiMajorAxis |-> semiMajorAxis,
                     solarRadius |-> solarRadius,
                     refractionAtSunset |-> refractionAtSunset,
                     lastSolsticeDay |-> lastSolsticeDay],
                    IF on THEN "true" ELSE "false"))
    IN  Body(calculateTrueAnomaly(orbitDay, daysPerYear, eccentricity))

(***************************************************************************)
(* The calls checked.  Every configuration gives orbitDay and latitude     *)
(* from a grid (but one, which leaves latitude out) and overrides none or  *)
(* a few of the other fields.                                              *)
(***************************************************************************)
DayStep == 61
MaxDayIdx == 5
MaxYears == 2

OrbitDays == {Int2Num(DayStep * i) : i \in 0..MaxDayIdx} \cup {Num(35, 0), Num(349, 0)}
Latitudes == {Int2Num(n) : n \in {0 - 90, 0 - 80, 0 - 40, 0, 40, 80, 90}}

Merge(over, base) == [n \in DOMAIN over \cup DOMAIN base |->
                         IF n \in DOMAIN over THEN over[n] ELSE base[n]]

\* A circular orbit and an upright axis, with the default disc and refraction
\* and with a point sun and no atmosphere.
FlatOverrides ==
    {[eccentricity |-> Zero, axialTilt |-> Zero],
     [eccentricity |-> Zero, axialTilt |-> Zero,
      solarRadius |-> Zero, refractionAtSunset |-> Zero]}
CircularOverrides == {[eccentricity |-> Zero]}
\* The orbit rescaled (twice the axis, eight times the mass, by Kepler's third
\* law), the mass alone changed, and a point sun.
ScaleOverrides ==
    {[semiMajorAxis |-> a, massOfSun |-> M, solarRadius |-> R] :
        a \in {DefaultSemiMajorAxis, Mul(Two, DefaultSemiMajorAxis)},
        M \in {DefaultMassOfSun, Mul(Num(8, 0), DefaultMassOfSun)},
        R \in {DefaultSolarRadius, Zero}}
\* A declination at the solstice equal to the disc centre's depression.
GrazeOverrides ==
    {[axialTilt |-> Num(0 - 3, 0 - 1), solarRadius |-> Zero],
     [axialTilt |-> Num(3, 0 - 1), solarRadius |-> Zero]}
\* Other day lengths; a refraction of 90 degrees makes the hour-angle cosine
\* -1 on the equator.
DayOverrides ==
    {[secondsPerDay |-> Num(1, 5)],
     [secondsPerDay |-> Num(1, 5), eccentricity |-> Zero, axialTilt |-> Zero,
      solarRadius |-> Zero, refractionAtSunset |-> Num(90, 0)],
     [secondsPerDay |-> Num(25, 3), eccentricity |-> Zero, axialTilt |-> Zero,
      solarRadius |-> Zero, refractionAtSunset |-> Num(90, 0)],
     [secondsPerDay |-> Num(887752, 0 - 1)]}
\* Fields the code does not validate.
InvalidOverrides ==
    {[daysPerYear |-> Zero], [semiMajorAxis |-> Zero], [eccentricity |-> One]}
GravityOverrides == {[gravitationalConstant |-> Num(1, 0 - 10)]}

Overrides ==
    FlatOverrides \cup CircularOverrides \cup ScaleOverrides \cup GrazeOverrides
    \cup DayOverrides \cup InvalidOverrides \cup GravityOverrides

EarthConfigs == {[orbitDay |-> d, latitude |-> l] : d \in OrbitDays, l \in Latitudes}
Configs ==
    EarthConfigs \cup {Merge(o, c) : o \in Overrides, c \in EarthConfigs}
    \cup {[orbitDay |-> Num(35, 0)]}
Debugs == {"omitted", "true", "false"}

NoObs == [trueAnomaly |-> NaN, angularVelocity |-> NaN, angularSolarPathLength |-> NaN,
          pm_cos_omega_0 |-> NaN, solarDeclination |-> NaN, cosPhi |-> NaN]

VARIABLES
    cfg,      \* the configuration record of the call
    debug,    \* the call's debug argument
    pc,       \* "ready" before the call, "done" after it returned
    ret,      \* the value returned
    console,  \* the lines printed
    obs       \* the call's local values

vars == <<cfg, debug, pc, ret, console, obs>>

\* Every configuration is called without a debug argument; the debug argument
\* is given for those that override nothing or the gravitational constant.
Init ==
    /\ \/ cfg \in Configs /\ debug = "omitted"
       \/ /\ cfg \in EarthConfigs \cup {Merge(o, c) : o \in GravityOverrides, c \in EarthConfigs}
          /\ debug \in Debugs
    /\ pc = "ready"
    /\ ret = NaN
    /\ console = <<>>
    /\ obs = NoObs

\* calculateHoursOfDaylight(cfg, debug), or calculateHoursOfDaylight(cfg).
Call ==
    /\ pc = "ready"
    /\ LET Return(r) == /\ ret' = r.ret
                         /\ console' = r.log
                         /\ obs' = [n \in DOMAIN NoObs |-> r[n]]
       IN  Return(calculateHoursOfDaylight(cfg, debug))
    /\ pc' = "done"
    /\ UNCHANGED <<cfg, debug>>

Next == Call

Spec == Init /\ [][Next]_vars
(***************************************************************************)
(* Properties                                                              *)
(***************************************************************************)
Done == pc = "done"

\* The hours returned for configuration c (no debug argument).
Hours(c) == calculateHoursOfDaylight(c, "omitted").ret

\* The value a field takes in the call.
Eccentricity(c) == Field(c, "eccentricity", DefaultEccentricity)
AxialTilt(c) == Field(c, "axialTilt", DefaultAxialTilt)
SolarRadius(c) == Field(c, "solarRadius", DefaultSolarRadius)
RefractionAtSunset(c) == Field(c, "refractionAtSunset", DefaultRefractionAtSunset)
SecondsPerDay(c) == Field(c, "secondsPerDay", DefaultSecondsPerDay)
DaysPerYear(c) == Field(c, "daysPerYear", DefaultDaysPerYear)
SemiMajorAxis(c) == Field(c, "semiMajorAxis", DefaultSemiMajorAxis)
MassOfSun(c) == Field(c, "massOfSun", DefaultMassOfSun)
Latitude(c) == Field(c, "latitude", NaN)
OrbitDay(c) == Field(c, "orbitDay", NaN)

\* x and y are the same number, or differ by tol at most.
Near(x, y, tol) == x = y \/ (IsFin(x) /\ IsFin(y) /\ Le(AbsNum(Sub(x, y)), tol))

\* What six-digit rounding may make two day lengths differ by: 0.01 hours.
HoursTol == Num(1, 0 - 2)

Twelve == Num(12, 0)
Given(c, names) == DOMAIN c = {"orbitDay", "latitude"} \cup names
BetweenPoles(c) == Lt(Num(0 - 90, 0), Latitude(c)) /\ Lt(Latitude(c), Num(90, 0))
AtPole(c) == Latitude(c) \in {Num(90, 0), Num(0 - 90, 0)}

\* The reference call: Earth's defaults, orbitDay 35, latitude 0.
Reference == [orbitDay |-> Num(35, 0), latitude |-> Zero]

\* C1 as the spec states it: the reference call returns a value within 0.05
\* hours of 12.0 hours.
C1_Original == Done /\ cfg = Reference => Near(ret, Twelve, Num(5, 0 - 2))

\* C1, amended: the reference call returns a value within 0.05 hours of 12.11
\* hours: the sun's disc and the refraction lengthen the equatorial day.
C1_Amended == Done /\ cfg = Reference => Near(ret, Num(1211, 0 - 2), Num(5, 0 - 2))

C1_Witness == Done /\ cfg = Reference /\ IsFin(ret) /\ Lt(Twelve, ret)

\* C2 as the spec states it: with eccentricity 0 and axialTilt 0, and every
\* other field at its default, the call returns exactly 12 hours at every
\* latitude strictly between the poles on every orbitDay.
C2_Original ==
    Done /\ Given(cfg, {"eccentricity", "axialTilt"}) /\ Eccentricity(cfg) = Zero
         /\ AxialTilt(cfg) = Zero /\ BetweenPoles(cfg)
    => ret = Twelve

\* C2, amended: with eccentricity 0, axialTilt 0, solarRadius 0 and
\* refractionAtSunset 0, and every other field at its default, the call returns
\* exactly 12 hours at every latitude strictly between the poles on every
\* orbitDay.
C2_Amended ==
    Done /\ Given(cfg, {"eccentricity", "axialTilt", "solarRadius", "refractionAtSunset"})
         /\ Eccentricity(cfg) = Zero /\ AxialTilt(cfg) = Zero
         /\ SolarRadius(cfg) = Zero /\ RefractionAtSunset(cfg) = Zero /\ BetweenPoles(cfg)
    => ret = Twelve

C2_Witness ==
    Done /\ Eccentricity(cfg) = Zero /\ AxialTilt(cfg) = Zero /\ SolarRadius(cfg) = Zero
         /\ RefractionAtSunset(cfg) = Zero /\ Latitude(cfg) = Num(40, 0)
         /\ OrbitDay(cfg) = Num(35, 0) /\ ret = Twelve

\* Configuration c with the semi-major axis k times as long and the sun's mass
\* k^3 times as large: the same period, by Kepler's third law.
Rescaled(c, k) ==
    Merge([semiMajorAxis |-> Mul(Int2Num(k), SemiMajorAxis(c)),
           massOfSun |-> Mul(Int2Num(k * k * k), MassOfSun(c))], c)
WithSolarRadius(c, R) == Merge([solarRadius |-> R], c)
WithMassOfSun(c, M) == Merge([massOfSun |-> M], c)

YearsLater(c, k) ==
    Merge([orbitDay |-> Add(OrbitDay(c), Mul(Int2Num(k), DaysPerYear(c)))], c)

\* C4 as the spec states it: the call with orbitDay d + k * daysPerYear returns
\* the same day length as the call with orbitDay d, for every k up to MaxYears.
C4_Original ==
    Done => \A k \in 1..MaxYears : Hours(YearsLater(cfg, k)) = ret

\* C4, amended: the call with orbitDay d + k * daysPerYear returns the day
\* length of the call with orbitDay d up to rounding, for every k up to
\* MaxYears: the two mean anomalies are rounded differently.
C4_Periodicity ==
    Done => \A k \in 1..MaxYears : Near(Hours(YearsLater(cfg, k)), ret, HoursTol)

\* A day length that the season decides, and the true anomaly a year later
\* more than a turn.
C4_Witness ==
    Done /\ cfg = [orbitDay |-> Num(35, 0), latitude |-> Num(40, 0)] /\ IsFin(ret)
         /\ Lt(ret, Num(11, 0))
         /\ Lt(Mul(Two, MathPI),
               calculateHoursOfDaylight(YearsLater(cfg, 1), "omitted").trueAnomaly)

\* Configuration c at the opposite latitude, half a year later.
Opposite(c) ==
    Merge([orbitDay |-> Add(OrbitDay(c), Div(DaysPerYear(c), Two)),
           latitude |-> Neg(Latitude(c))], c)

\* C5 as the spec states it: with a nonzero axialTilt, the day length at
\* latitude L on day d is that at latitude -L on day d + daysPerYear/2, up to
\* the error of the series (here: up to 0.01 hours).
C5_Original ==
    Done /\ AxialTilt(cfg) # Zero /\ "latitude" \in DOMAIN cfg
    => Near(Hours(Opposite(cfg)), ret, HoursTol)

\* C5, amended: with a nonzero axialTilt and eccentricity 0, the day length at
\* latitude L on day d is that at latitude -L on day d + daysPerYear/2 (up to
\* rounding).
C5_Amended ==
    Done /\ AxialTilt(cfg) # Zero /\ Eccentricity(cfg) = Zero /\ "latitude" \in DOMAIN cfg
    => Near(Hours(Opposite(cfg)), ret, HoursTol)

C5_Witness ==
    Done /\ AxialTilt(cfg) = DefaultAxialTilt /\ Eccentricity(cfg) = Zero
         /\ Latitude(cfg) = Num(40, 0) /\ OrbitDay(cfg) = Num(35, 0)
         /\ IsFin(ret) /\ Lt(ret, Num(11, 0))

\* C6: when the hour-angle cosine is below -1 or above 1, the path length and
\* the hours returned are NaN.
C6_PolarNaN ==
    Done /\ (Lt(obs.pm_cos_omega_0, Neg(One)) \/ Lt(One, obs.pm_cos_omega_0))
    => IsNaN(obs.angularSolarPathLength) /\ IsNaN(ret)

\* A polar day: the cosine is a finite number below -1.
C6_Witness ==
    Done /\ IsFin(obs.pm_cos_omega_0) /\ Lt(obs.pm_cos_omega_0, Neg(One)) /\ IsNaN(ret)
         /\ Latitude(cfg) = Num(80, 0)

\* C7: at latitude 90 or -90, with a nonzero solar declination, the call
\* returns a number that is not finite.
C7_PoleNotFinite ==
    Done /\ AtPole(cfg) /\ IsFin(obs.solarDeclination) /\ obs.solarDeclination # Zero
    => ~IsFin(ret)

\* C8 as the spec states it: with secondsPerDay > 0 the call returns NaN or a
\* number h with 0 <= h <= secondsPerDay/3600.
C8_Original ==
    Done /\ Lt(Zero, SecondsPerDay(cfg))
    => \/ IsNaN(ret)
       \/ /\ IsFin(ret)
          /\ Le(Zero, ret)
          /\ Le(ret, Div(SecondsPerDay(cfg), Num(3600, 0)))

\* C8, amended: with secondsPerDay > 0 the call returns NaN or a finite number
\* h with 0 <= h, and h <= secondsPerDay/3600 up to rounding (a part in 10^5
\* here): the quotient 2*pi / (2*pi / secondsPerDay) may round above
\* secondsPerDay.
C8_Range ==
    Done /\ Lt(Zero, SecondsPerDay(cfg))
    => \/ IsNaN(ret)
       \/ /\ IsFin(ret)
          /\ Le(Zero, ret)
          /\ Le(ret, Mul(Div(SecondsPerDay(cfg), Num(3600, 0)), Num(100001, 0 - 5)))

\* The longest day: the hour-angle cosine is -1 and the sun is up all day.
C8_Witness ==
    Done /\ obs.pm_cos_omega_0 = Neg(One) /\ IsFin(ret)
         /\ Lt(Div(SecondsPerDay(cfg), Num(3600, 0)), ret)
         /\ Near(ret, Div(SecondsPerDay(cfg), Num(3600, 0)), HoursTol)

\* C9: the call returns the same value with debug true and with debug false,
\* and prints nothing when debug is false or omitted.
C9_DebugObservational ==
    Done =>
        /\ ret = calculateHoursOfDaylight(cfg, "true").ret
        /\ ret = calculateHoursOfDaylight(cfg, "false").ret
        /\ debug \in {"omitted", "false"} => console = <<>>

C9_Witness == Done /\ debug = "omitted" /\ console = <<>> /\ IsFin(ret)

Without(c, name) == [n \in DOMAIN c \ {name} |-> c[n]]

\* C10 as the spec states it: a gravitationalConstant in the record is the one
\* the angular velocity is computed with.
C10_Original ==
    Done /\ "gravitationalConstant" \in DOMAIN cfg
    => obs.angularVelocity =
           calculateAngularVelocity(obs.trueAnomaly, SemiMajorAxis(cfg), Eccentricity(cfg),
                                    MassOfSun(cfg), cfg.gravitationalConstant)

\* C10, amended: a gravitationalConstant in the record is ignored: the angular
\* velocity is computed with 6.67408e-11, as in the call without the field.
C10_Amended ==
    Done /\ "gravitationalConstant" \in DOMAIN cfg
    => /\ obs.angularVelocity =
              calculateAngularVelocity(obs.trueAnomaly, SemiMajorAxis(cfg), Eccentricity(cfg),
                                       MassOfSun(cfg), DefaultGravitationalConstant)
       /\ obs.angularVelocity =
              calculateHoursOfDaylight(Without(cfg, "gravitationalConstant"), debug).angularVelocity

C10_Witness ==
    Done /\ "gravitationalConstant" \in DOMAIN cfg
         /\ cfg.gravitationalConstant # DefaultGravitationalConstant
         /\ IsFin(obs.angularVelocity)

=============================================================================
